---- MODULE Spec2Model ----
(***************************************************************************)
(* State-machine model of the generated ClickHouse client module of        *)
(* src/src/lib/envio/generateClickHouseClient.ts: the batch accumulator    *)
(* (writeToClickHouse / flushBatch), the two watermark readers, the        *)
(* reconciler (initializeClickHouse) and the orphan remover                *)
(* (deleteBlocksAfter).  Asynchronous functions are split at their await   *)
(* points: everything between two awaits is one atomic action, as on the   *)
(* single-threaded JavaScript event loop.                                  *)
(***************************************************************************)
EXTENDS Integers, Sequences, FiniteSets, TLC

\* ------------------------------------------------------------------ bounds
MaxBlock == 2
MaxFaults == 1
MaxPassRuns == 2
MaxAccepts == 4
MaxFlushCalls == 1
MaxIngest == 2
MaxEarlyAccepts == 3
MaxSignals == 2
MaxTicks == 2
MaxInserts == 3
MaxClock == 2
MaxTimerStarts == 2

\* ------------------------------------------------- configuration (env vars)
\* process.env.CLICKHOUSE_CONFIRMED_BLOCK_THRESHOLD (default 200), scaled down
CONFIRMED_BLOCK_THRESHOLD == 1
\* process.env.MAX_BATCH_SIZE (default 5000), scaled down
ENVIO_MAX_BATCH_SIZE == 2

Tables == {"X", "Y"}
Chains == {1, 2}
Blocks == 1..MaxBlock
PassIds == {"p1"}
\* call frames of initializeClickHouse when the timer runs: setInterval does not
\* wait for the previous callback, so two calls may be active at once
LifePassIds == {"p1", "p2"}
Signals == {"SIGINT", "SIGTERM"}

VARIABLES
    \* ---- the two stores
    chTables,          \* MergeTree tables that exist in the ClickHouse database
    chRows,            \* rows of the event tables: [table, chain, block]
    mergeTree,         \* the ReplacingMergeTree view of an event table: row versions
    pgBootstrapped,    \* Envio's tables exist in PostgreSQL
    pgWatermarks,      \* chain -> MAX(block_number) of end_of_block_range_scanned_data
    pgChainHeads,      \* chain -> envio_chains.source_block (non-NULL rows only)
    \* ---- module state of the generated client
    clientConfigOk,    \* createClient accepts the connection configuration
    clickHouseClient,  \* "null" | "open"
    pgConnections,     \* postgres() clients opened by the readers and not yet ended
    currentBatch,      \* pending records in push order; currentBatch[table] is Bucket
    batchEventCount,
    flushes,           \* flushBatch calls: sequence of flush records
    insertsInFlight,   \* client.insert calls not yet settled
    \* ---- reconciler
    pass,              \* PassIds -> state of an initializeClickHouse call
    deletesInFlight,   \* DELETE commands not yet settled
    \* ---- scheduler and shutdown coordinator
    reconciliationEnabled,   \* CLICKHOUSE_RECONCILIATION_ENABLED
    reconciliationInterval,  \* "null" | "set": the setInterval timer
    intervalTimers,    \* interval timers alive in the runtime (setInterval - clearInterval)
    isShuttingDown,
    processState,      \* "running" | "exit0" | "exit1"
    startup,           \* the auto-initialize IIFE: "running" | "ok" | "failed"
    shutdown,          \* the shutdownClickHouse call: [pc, flush]
    \* ---- fault injection and history
    faults,            \* store operations that failed so far
    passRuns,          \* initializeClickHouse calls started so far
    hist               \* history (ghost) record, never read by the program

storeVars == <<chTables, chRows, pgBootstrapped, pgWatermarks, pgChainHeads>>
batchVars == <<currentBatch, batchEventCount, flushes, insertsInFlight>>
passVars == <<pass, deletesInFlight, passRuns>>
lifeVars == <<reconciliationEnabled, reconciliationInterval, isShuttingDown,
              processState, startup, shutdown>>
vars == <<chTables, chRows, mergeTree, intervalTimers, pgConnections, pgBootstrapped, pgWatermarks, pgChainHeads,
          clientConfigOk, clickHouseClient, currentBatch, batchEventCount,
          flushes, insertsInFlight, pass, deletesInFlight, faults, passRuns, hist,
          reconciliationEnabled, reconciliationInterval, isShuttingDown,
          processState, startup, shutdown>>

\* ----------------------------------------------------------------- helpers
Max(S) == CHOOSE x \in S : \A y \in S : y <= x

Min(S) == CHOOSE x \in S : \A y \in S : x <= y

EmptyMap == [c \in {} |-> 0]

\* JavaScript `m[k] || d` on a Record<number, number>: undefined and 0 are falsy
OrElse(m, k, d) == IF k \in DOMAIN m /\ m[k] # 0 THEN m[k] ELSE d

PartialMaps(D, R) == UNION {[S -> R] : S \in SUBSET D}

\* ---------------------------------------------------------- watermark readers
\* getPgWatermarks: SELECT chain_id, MAX(block_number) ... GROUP BY chain_id;
\* error 42P01 (table missing) is answered with {}
GetPgWatermarksAllChains ==
    [c \in Chains |-> IF pgBootstrapped /\ c \in DOMAIN pgWatermarks
                       THEN pgWatermarks[c] ELSE 0]

GetPgWatermarks == IF pgBootstrapped THEN pgWatermarks ELSE EmptyMap

\* getPgChainHeads: SELECT id, source_block ... WHERE source_block IS NOT NULL
GetPgChainHeads == IF pgBootstrapped THEN pgChainHeads ELSE EmptyMap

\* getAllEventTables
GetAllEventTables == chTables

\* one branch of the UNION ALL: per-chain MAX(block_number) of one table
TableMaxes(rows, t) ==
    LET cs == {r.chain : r \in {x \in rows : x.table = t}}
    IN  {[chain_id |-> c,
          max_block |-> Max({r.block : r \in {x \in rows : x.table = t /\ x.chain = c}})]
         : c \in cs}

GetClickHouseMaxBlocksZeros(rows, tables) ==
    IF tables = {} THEN [c \in Chains |-> 0]
    ELSE LET all_maxes == UNION {TableMaxes(rows, t) : t \in tables}
         IN  [c \in {m.chain_id : m \in all_maxes} |->
                 Max({m.max_block : m \in {x \in all_maxes : x.chain_id = c}})]

GetClickHouseMaxBlocksFirstTable(rows, tables) ==
    IF tables = {} THEN EmptyMap
    ELSE LET first == TableMaxes(rows, CHOOSE t \in tables : t = "X" \/ "X" \notin tables)
         IN  [c \in {m.chain_id : m \in first} |->
                 Max({m.max_block : m \in {x \in first : x.chain_id = c}})]

\* getClickHouseMaxBlocks: MAX over the union of every table's per-chain maxima
GetClickHouseMaxBlocks(rows, tables) ==
    IF tables = {} THEN EmptyMap
    ELSE LET all_maxes == UNION {TableMaxes(rows, t) : t \in tables}
         IN  [c \in {m.chain_id : m \in all_maxes} |->
                 Max({m.max_block : m \in {x \in all_maxes : x.chain_id = c}})]

\* -------------------------------------------------------------- orphan remover
\* WHERE chain_id = {chain_id} AND block_number > {safe_block}
Orphaned(rows, t, chainId, safeBlock) ==
    {r \in rows : r.table = t /\ r.chain = chainId /\ r.block > safeBlock}

TablesToCleanAll(rows, tables, chainId, safeBlock) == tables

TablesToCleanFirstOnly(rows, tables, chainId, safeBlock) ==
    LET hit == {t \in tables : Cardinality(Orphaned(rows, t, chainId, safeBlock)) > 0}
    IN  IF hit = {} THEN {} ELSE {CHOOSE t \in hit : \A u \in hit : t = "X" \/ u # "X"}

\* counts.filter(orphaned_count > 0).map(table_name) (lines 349-352)
TablesToClean(rows, tables, chainId, safeBlock) ==
    {t \in tables : Cardinality(Orphaned(rows, t, chainId, safeBlock)) > 0}

DeleteFromOffByOne(rows, t, chainId, safeBlock) ==
    rows \ Orphaned(rows, t, chainId, safeBlock + 1)

DeleteFromWrongChain(rows, t, chainId, safeBlock) ==
    rows \ {r \in rows : r.table = t /\ r.block > safeBlock}

DeleteFromInclusive(rows, t, chainId, safeBlock) ==
    rows \ {r \in rows : r.table = t /\ r.chain = chainId /\ r.block >= safeBlock}

\* DELETE FROM table WHERE chain_id = ... AND block_number > ...
DeleteFrom(rows, t, chainId, safeBlock) ==
    rows \ Orphaned(rows, t, chainId, safeBlock)

\* ------------------------------------------------------------------ reconciler
ClassifyStrictThreshold(chMaxBlock, pgWatermark, chainHead, threshold) ==
    IF chMaxBlock > pgWatermark
    THEN IF chMaxBlock > chainHead THEN "OrphanBeyondHead"
         ELSE IF chMaxBlock < chainHead - threshold THEN "OrphanConfirmed"
         ELSE "OrphanWithinReorgWindow"
    ELSE IF chMaxBlock < pgWatermark THEN "BehindWillReprocess"
    ELSE "InSync"

\* the if/else chain of initializeClickHouse (lines 405-444) for a given
\* confirmed-block threshold
Classify(chMaxBlock, pgWatermark, chainHead, threshold) ==
    LET safeThreshold == chainHead - threshold
    IN  IF chMaxBlock > pgWatermark
        THEN IF chMaxBlock > chainHead THEN "OrphanBeyondHead"
             ELSE IF chMaxBlock <= safeThreshold THEN "OrphanConfirmed"
             ELSE "OrphanWithinReorgWindow"
        ELSE IF chMaxBlock < pgWatermark THEN "BehindWillReprocess"
        ELSE "InSync"

DeletesUnlessInSync(decision) == decision # "InSync"

DeletesBeyondHeadOnly(decision) == decision = "OrphanBeyondHead"

\* the branches that call deleteBlocksAfter(chainId, pgWatermark)
Deletes(decision) == decision \in {"OrphanBeyondHead", "OrphanConfirmed"}

\* const sql = postgres({...}) (lines 182, 223)
PgOpened(n) == n + 1

PgEndedLeaked(n) == n

\* finally { await sql.end() } (lines 212-214, 252-254)
PgEnded(n) == n - 1

IdlePass ==
    [pc |-> "idle", run |-> 0, pgWatermarks |-> EmptyMap, pgChainHeads |-> EmptyMap,
     chMaxBlocks |-> EmptyMap, todo |-> {}, chain |-> 0, decision |-> EmptyMap,
     nDeletes |-> 0, called |-> {}, rows0 |-> {}, prevOk |-> FALSE, prevDeletes |-> 0]

PassActive(p) == pass[p].pc \notin {"idle", "done", "failed"}

\* getClickHouseClient(): creates the client on first use, throws when
\* createClient rejects the configuration
GetClientThrows == clickHouseClient = "null" /\ ~clientConfigOk

CanFail == faults < MaxFaults

SetPass(p, rec) == pass' = [pass EXCEPT ![p] = rec]

\* a call of initializeClickHouse begins (lines 391-395)
BeginPass(p) ==
    /\ SetPass(p, [IdlePass EXCEPT !.pc = "getPgWatermarks", !.run = passRuns + 1,
                                   !.prevOk = (pass[p].pc = "done")])
    /\ passRuns' = passRuns + 1
    /\ hist' = [hist EXCEPT !.passPg = Append(@, EmptyMap)]

StartPass(p) ==
    /\ ~PassActive(p)
    /\ passRuns < MaxPassRuns
    /\ BeginPass(p)
    /\ pgConnections' = PgOpened(pgConnections)
    /\ UNCHANGED <<storeVars, batchVars, clientConfigOk, intervalTimers, mergeTree, lifeVars, clickHouseClient,
                   deletesInFlight, faults>>

\* await getPgWatermarks() resolves (line 395)
ReadPgWatermarks(p) ==
    /\ pass[p].pc = "getPgWatermarks"
    /\ SetPass(p, [pass[p] EXCEPT !.pc = "getPgChainHeads",
                                  !.pgWatermarks = GetPgWatermarks])
    /\ hist' = [hist EXCEPT !.passPg[pass[p].run] = GetPgWatermarks]
    /\ pgConnections' = PgOpened(PgEnded(pgConnections))
    /\ UNCHANGED <<storeVars, batchVars, clientConfigOk, intervalTimers, mergeTree, lifeVars, clickHouseClient,
                   deletesInFlight, passRuns, faults>>

\* await getPgChainHeads() resolves (line 396); getClickHouseMaxBlocks starts
\* and calls getClickHouseClient() before its first await (line 283)
ReadPgChainHeads(p) ==
    /\ pass[p].pc = "getPgChainHeads"
    /\ IF GetClientThrows
       THEN /\ SetPass(p, [pass[p] EXCEPT !.pc = "failed",
                                          !.pgChainHeads = GetPgChainHeads])
            /\ UNCHANGED clickHouseClient
       ELSE /\ SetPass(p, [pass[p] EXCEPT !.pc = "getClickHouseMaxBlocks",
                                          !.pgChainHeads = GetPgChainHeads])
            /\ clickHouseClient' = "open"
    /\ pgConnections' = PgEnded(pgConnections)
    /\ UNCHANGED <<storeVars, batchVars, clientConfigOk, intervalTimers, mergeTree, lifeVars,
                   deletesInFlight, passRuns, faults, hist>>

\* await getClickHouseMaxBlocks() resolves (line 397); the for loop is entered
ReadClickHouseMaxBlocks(p) ==
    /\ pass[p].pc = "getClickHouseMaxBlocks"
    /\ SetPass(p, [pass[p] EXCEPT
            !.pc = "loop",
            !.chMaxBlocks = GetClickHouseMaxBlocks(chRows, GetAllEventTables),
            !.rows0 = chRows,
            !.todo = DOMAIN pass[p].pgWatermarks])
    /\ UNCHANGED <<storeVars, batchVars, clientConfigOk, intervalTimers, pgConnections, mergeTree, lifeVars, clickHouseClient,
                   deletesInFlight, passRuns, faults, hist>>

\* an awaited store query of the pass rejects: the catch block rethrows (448-451)
PassThrows(p) ==
    /\ pass[p].pc \in {"getPgWatermarks", "getPgChainHeads",
                       "getClickHouseMaxBlocks", "deleteBlocksAfter"}
    /\ CanFail
    /\ faults' = faults + 1
    /\ SetPass(p, [pass[p] EXCEPT !.pc = "failed"])
    /\ pgConnections' = IF pass[p].pc \in {"getPgWatermarks", "getPgChainHeads"}
                        THEN PgEnded(pgConnections) ELSE pgConnections
    /\ UNCHANGED <<storeVars, batchVars, clientConfigOk, intervalTimers, mergeTree, lifeVars, clickHouseClient,
                   deletesInFlight, passRuns, hist>>

\* one iteration of the for loop over Object.entries(pgWatermarks), in
\* ascending chain id order (lines 399-445), up to the await of deleteBlocksAfter
ChainHeadPlusThreshold(heads, chainId, pgWatermark) ==
    OrElse(heads, chainId, pgWatermark + CONFIRMED_BLOCK_THRESHOLD)

\* const chainHead = pgChainHeads[chainId] || pgWatermark
ChainHeadOf(heads, chainId, pgWatermark) == OrElse(heads, chainId, pgWatermark)

ReconcileChain(p) ==
    /\ pass[p].pc = "loop"
    /\ pass[p].todo # {}
    /\ LET chainId == Min(pass[p].todo)
           pgWatermark == pass[p].pgWatermarks[chainId]
           chMaxBlock == OrElse(pass[p].chMaxBlocks, chainId, 0)
           chainHead == ChainHeadOf(pass[p].pgChainHeads, chainId, pgWatermark)
           d == Classify(chMaxBlock, pgWatermark, chainHead, CONFIRMED_BLOCK_THRESHOLD)
           dec == [c \in DOMAIN pass[p].decision \cup {chainId} |->
                      IF c = chainId THEN d ELSE pass[p].decision[c]]
       IN  IF Deletes(d)
           THEN IF GetClientThrows
                THEN /\ SetPass(p, [pass[p] EXCEPT !.pc = "failed", !.decision = dec,
                                                   !.called = @ \cup {chainId}])
                     /\ UNCHANGED clickHouseClient
                ELSE /\ SetPass(p, [pass[p] EXCEPT !.pc = "deleteBlocksAfter",
                                                   !.chain = chainId, !.decision = dec,
                                                   !.called = @ \cup {chainId}])
                     /\ clickHouseClient' = "open"
           ELSE /\ SetPass(p, [pass[p] EXCEPT !.todo = @ \ {chainId}, !.decision = dec])
                /\ UNCHANGED clickHouseClient
    /\ UNCHANGED <<storeVars, batchVars, clientConfigOk, intervalTimers, pgConnections, mergeTree, lifeVars,
                   deletesInFlight, passRuns, faults, hist>>

NewDeletes(p, tables) ==
    {[pass |-> p, run |-> pass[p].run, table |-> t, chainId |-> pass[p].chain,
      safeBlock |-> pass[p].pgWatermarks[pass[p].chain]] : t \in tables}

\* deleteBlocksAfter: the table list and the count query have resolved
\* (lines 326-357); the DELETE commands are issued in parallel (364-378)
CountOrphans(p) ==
    /\ pass[p].pc = "deleteBlocksAfter"
    /\ LET chainId == pass[p].chain
           safeBlock == pass[p].pgWatermarks[chainId]
           tables == GetAllEventTables
           tablesToClean == TablesToClean(chRows, tables, chainId, safeBlock)
       IN  IF tables = {} \/ tablesToClean = {}
           THEN /\ SetPass(p, [pass[p] EXCEPT !.pc = "loop", !.todo = @ \ {chainId}])
                /\ UNCHANGED deletesInFlight
           ELSE /\ SetPass(p, [pass[p] EXCEPT !.pc = "deleting",
                                  !.nDeletes = @ + Cardinality(tablesToClean)])
                /\ deletesInFlight' = deletesInFlight \cup NewDeletes(p, tablesToClean)
    /\ UNCHANGED <<storeVars, batchVars, clientConfigOk, intervalTimers, pgConnections, mergeTree, lifeVars, clickHouseClient,
                   passRuns, faults, hist>>

Awaited(d) == pass[d.pass].pc = "deleting" /\ pass[d.pass].run = d.run

\* one DELETE command executes and resolves; Promise.all resolves with the last
DeleteSettles(d) ==
    /\ d \in deletesInFlight
    /\ chRows' = DeleteFrom(chRows, d.table, d.chainId, d.safeBlock)
    /\ deletesInFlight' = deletesInFlight \ {d}
    /\ IF Awaited(d) /\ ~\E e \in deletesInFlight \ {d} : e.pass = d.pass /\ e.run = d.run
       THEN SetPass(d.pass, [pass[d.pass] EXCEPT !.pc = "loop", !.todo = @ \ {d.chainId}])
       ELSE UNCHANGED pass
    /\ UNCHANGED <<chTables, pgBootstrapped, pgWatermarks, pgChainHeads, batchVars,
                   clientConfigOk, intervalTimers, pgConnections, mergeTree, lifeVars, clickHouseClient, passRuns, faults, hist>>

\* one DELETE command rejects: Promise.all rejects at once, the pass fails
DeleteRejects(d) ==
    /\ d \in deletesInFlight
    /\ CanFail
    /\ faults' = faults + 1
    /\ deletesInFlight' = deletesInFlight \ {d}
    /\ IF Awaited(d)
       THEN SetPass(d.pass, [pass[d.pass] EXCEPT !.pc = "failed"])
       ELSE UNCHANGED pass
    /\ UNCHANGED <<storeVars, batchVars, clientConfigOk, intervalTimers, pgConnections, mergeTree, lifeVars, clickHouseClient,
                   passRuns, hist>>

\* the loop is exhausted: "Reconciliation complete" (line 447)
PassComplete(p) ==
    /\ pass[p].pc = "loop"
    /\ pass[p].todo = {}
    /\ SetPass(p, [pass[p] EXCEPT !.pc = "done"])
    /\ UNCHANGED <<storeVars, batchVars, clientConfigOk, intervalTimers, pgConnections, mergeTree, lifeVars, clickHouseClient,
                   deletesInFlight, passRuns, faults, hist>>

PassStep ==
    \/ \E p \in PassIds : StartPass(p)
    \/ \E p \in PassIds : ReadPgWatermarks(p)
    \/ \E p \in PassIds : ReadPgChainHeads(p)
    \/ \E p \in PassIds : ReadClickHouseMaxBlocks(p)
    \/ \E p \in PassIds : PassThrows(p)
    \/ \E p \in PassIds : ReconcileChain(p)
    \/ \E p \in PassIds : CountOrphans(p)
    \/ \E d \in deletesInFlight : DeleteSettles(d)
    \/ \E d \in deletesInFlight : DeleteRejects(d)
    \/ \E p \in PassIds : PassComplete(p)

\* ------------------------------------------------------------ batch accumulator
\* history of the calls made on the accumulator (never read by the program)
InitHist ==
    [accepts |-> 0,        \* writeToClickHouse calls so far; a record's id is its rank
     returned |-> {},      \* ids whose writeToClickHouse call returned true
     raised |-> {},        \* ids whose writeToClickHouse call rejected
     clientThrew |-> {},   \* ids whose flushBatch call threw in getClickHouseClient
     handed |-> <<>>,      \* ids passed to client.insert, in call order
     insertedOk |-> {},    \* ids whose client.insert resolved
     rejected |-> {},      \* [flush, table] of the client.insert calls that rejected
     flushCalls |-> 0,     \* flushClickHouseBatch calls made from outside
     signals |-> 0,        \* SIGINT / SIGTERM deliveries
     shutdownCalls |-> 0,  \* shutdownClickHouse calls
     events |-> <<>>,      \* the steps of shutdownClickHouse and its handler, in order
     timerStarts |-> 0,    \* setInterval calls
     periodicFailed |-> 0, \* periodic passes whose failure the callback caught
     tickAfterFailure |-> FALSE,
     startWhileActive |-> FALSE,  \* startPeriodicReconciliation was called with a timer set
     stopWhileIdle |-> FALSE,     \* stopPeriodicReconciliation was called with no timer set
     passPg |-> <<>>]      \* per initializeClickHouse call: the watermarks it read

\* currentBatch[table]
Bucket(batch, t) == SelectSeq(batch, LAMBDA r : r.table = t)

\* Object.keys(currentBatch): tables in the order their first record was pushed
ObjectKeys(batch) ==
    LET F[i \in 0..Len(batch)] ==
            IF i = 0 THEN <<>>
            ELSE IF \E j \in 1..Len(F[i - 1]) : F[i - 1][j] = batch[i].table
                 THEN F[i - 1]
                 ELSE Append(F[i - 1], batch[i].table)
    IN  F[Len(batch)]

Ids(batch) == {batch[i].id : i \in 1..Len(batch)}

IdSeq(batch) == [i \in 1..Len(batch) |-> batch[i].id]

RowsOf(batch) ==
    {[table |-> batch[i].table, chain |-> batch[i].chain, block |-> batch[i].block]
        : i \in 1..Len(batch)}

\* the ids handed to client.insert by one flush: one call per key, in key order
HandedBy(batch) ==
    LET keys == ObjectKeys(batch)
        G[i \in 0..Len(keys)] ==
            IF i = 0 THEN <<>> ELSE G[i - 1] \o IdSeq(Bucket(batch, keys[i]))
    IN  G[Len(keys)]

ThresholdReachedStrict(count) == count > ENVIO_MAX_BATCH_SIZE

\* if (batchEventCount >= ENVIO_MAX_BATCH_SIZE) (line 166)
ThresholdReached(count) == count >= ENVIO_MAX_BATCH_SIZE

BatchAfterSwapKept(batch) == batch

CountAfterSwapKept(count) == count

\* batchEventCount = 0 (line 119)
CountAfterSwap(count) == 0

\* currentBatch = {} (line 118)
BatchAfterSwap(batch) == <<>>

FlushOutcomeSwallowed(anyRejected) == "resolved"

\* Promise.all resolves, or the catch block rethrows (lines 122-148)
FlushOutcome(anyRejected) == IF anyRejected THEN "rejected" ELSE "resolved"

AcceptOutcomeSwallowed(flushOutcome) == "returned"

\* writeToClickHouse awaits flushBatch without a try/catch (lines 166-170)
AcceptOutcome(flushOutcome) == IF flushOutcome = "rejected" THEN "raised" ELSE "returned"

NewFlush(caller, acceptId, batch, at) ==
    [caller |-> caller, acceptId |-> acceptId, batch |-> batch, at |-> at,
     outcome |-> "pending", failed |-> "", logged |-> ""]

NewInsertsFirstKeyOnly(k, batch) == {[flush |-> k, table |-> Head(ObjectKeys(batch))]}

\* tablesToWrite.map(async (table) => client.insert(...)) (lines 122-132)
NewInserts(k, batch) ==
    {[flush |-> k, table |-> t] : t \in {batch[i].table : i \in 1..Len(batch)}}

\* the history after a writeToClickHouse call with id `id` has settled
Settle(h, id, outcome) ==
    IF id = 0 THEN h
    ELSE IF outcome = "raised" THEN [h EXCEPT !.raised = @ \cup {id}]
    ELSE [h EXCEPT !.returned = @ \cup {id}]

\* flushBatch up to its await (lines 111-133), called with `batch` pending:
\* getClickHouseClient, the swap, and one client.insert per table
FlushBegin(caller, acceptId, batch, h) ==
    IF GetClientThrows
    THEN /\ currentBatch' = batch
         /\ batchEventCount' = Len(batch)
         /\ hist' = Settle([h EXCEPT !.clientThrew = @ \cup {acceptId}],
                           acceptId, AcceptOutcome("rejected"))
         /\ UNCHANGED <<clickHouseClient, flushes, insertsInFlight>>
    ELSE /\ clickHouseClient' = "open"
         /\ currentBatch' = BatchAfterSwap(batch)
         /\ batchEventCount' = CountAfterSwap(Len(batch))
         /\ flushes' = Append(flushes, NewFlush(caller, acceptId, batch, h.accepts))
         /\ insertsInFlight' = insertsInFlight \cup NewInserts(Len(flushes) + 1, batch)
         /\ hist' = [h EXCEPT !.handed = @ \o HandedBy(batch)]

\* the writeToClickHouse handler up to its await or its return (lines 157-171)
Accept(t, c, b) ==
    /\ hist.accepts < MaxAccepts
    /\ LET id == hist.accepts + 1
           parsed == [id |-> id, table |-> t, chain |-> c, block |-> b]
           batch == Append(currentBatch, parsed)
           h == [hist EXCEPT !.accepts = id]
       IN  IF ThresholdReached(batchEventCount + 1)
           THEN FlushBegin("accept", id, batch, h)
           ELSE /\ currentBatch' = batch
                /\ batchEventCount' = batchEventCount + 1
                /\ hist' = Settle(h, id, "returned")
                /\ UNCHANGED <<clickHouseClient, flushes, insertsInFlight>>
    /\ UNCHANGED <<storeVars, clientConfigOk, intervalTimers, pgConnections, mergeTree, lifeVars, passVars, faults>>

FlushReturnsEarlyNever(count) == FALSE

\* if (batchEventCount === 0) return (line 111)
FlushReturnsEarly(count) == count = 0

\* flushClickHouseBatch() called from outside the module (line 174)
ExplicitFlush ==
    /\ hist.flushCalls < MaxFlushCalls
    /\ LET h == [hist EXCEPT !.flushCalls = @ + 1]
       IN  IF FlushReturnsEarly(batchEventCount)
           THEN /\ hist' = h
                /\ UNCHANGED <<clickHouseClient, batchVars>>
           ELSE FlushBegin("explicit", 0, currentBatch, h)
    /\ UNCHANGED <<storeVars, clientConfigOk, intervalTimers, pgConnections, mergeTree, lifeVars, passVars, faults>>

OthersInFlightIgnored(i) == {}

\* the inserts Promise.all still waits for besides i
OthersInFlight(i) == {j \in insertsInFlight \ {i} : j.flush = i.flush}

\* one client.insert resolves: its rows are in the table; Promise.all resolves
\* with the last insert of a flush that has not rejected
InsertSettles(i) ==
    /\ i \in insertsInFlight
    /\ i.table \in chTables
    /\ LET f == flushes[i.flush]
           events == Bucket(f.batch, i.table)
           last == f.outcome = "pending" /\ OthersInFlight(i) = {}
           h == [hist EXCEPT !.insertedOk = @ \cup Ids(events)]
       IN  /\ chRows' = chRows \cup RowsOf(events)
           /\ insertsInFlight' = insertsInFlight \ {i}
           /\ IF last
              THEN /\ flushes' = [flushes EXCEPT ![i.flush].outcome = FlushOutcome(FALSE)]
                   /\ hist' = Settle(h, f.acceptId, AcceptOutcome(FlushOutcome(FALSE)))
              ELSE /\ UNCHANGED flushes
                   /\ hist' = h
    /\ UNCHANGED <<chTables, pgBootstrapped, pgWatermarks, pgChainHeads, clientConfigOk, intervalTimers, pgConnections, mergeTree, lifeVars,
                   clickHouseClient, currentBatch, batchEventCount, passVars, faults>>

\* one client.insert rejects: Promise.all rejects at once, the catch block logs
\* the first table of the batch and rethrows (lines 138-148)
InsertRejects(i) ==
    /\ i \in insertsInFlight
    /\ CanFail \/ i.table \notin chTables
    /\ faults' = IF i.table \in chTables THEN faults + 1 ELSE faults
    /\ LET f == flushes[i.flush]
           h == [hist EXCEPT !.rejected = @ \cup {i}]
       IN  /\ insertsInFlight' = insertsInFlight \ {i}
           /\ IF f.outcome = "pending"
              THEN /\ flushes' = [flushes EXCEPT ![i.flush] =
                          [f EXCEPT !.outcome = FlushOutcome(TRUE), !.failed = i.table,
                                    !.logged = Head(ObjectKeys(f.batch))]]
                   /\ hist' = Settle(h, f.acceptId, AcceptOutcome(FlushOutcome(TRUE)))
              ELSE /\ UNCHANGED flushes
                   /\ hist' = h
    /\ UNCHANGED <<storeVars, clientConfigOk, intervalTimers, pgConnections, mergeTree, lifeVars, clickHouseClient, currentBatch,
                   batchEventCount, passVars>>

BatchStep(cs, bs) ==
    \/ \E t \in Tables, c \in cs, b \in bs : Accept(t, c, b)
    \/ ExplicitFlush
    \/ \E i \in insertsInFlight : InsertSettles(i)
    \/ \E i \in insertsInFlight : InsertRejects(i)

\* ---------------------------------------------------------------- initial states
\* rows of one table and chain: every block up to a high-water mark
RowsUpTo(m) == {[table |-> k[1], chain |-> k[2], block |-> b] :
                   k \in {x \in DOMAIN m : TRUE}, b \in Blocks} \cap
               {r \in [table : Tables, chain : Chains, block : Blocks] :
                   r.block <= m[<<r.table, r.chain>>]}

NoShutdown == [pc |-> "none", flush |-> 0, signal |-> ""]

NoRows == [rows |-> {}, now |-> 0, seq |-> 0, written |-> {}]

InitModule ==
    /\ mergeTree = NoRows
    /\ intervalTimers = 0
    /\ pgConnections = 0
    /\ clickHouseClient = "null"
    /\ currentBatch = <<>>
    /\ batchEventCount = 0
    /\ flushes = <<>>
    /\ insertsInFlight = {}
    /\ pass = [p \in PassIds |-> IdlePass]
    /\ deletesInFlight = {}
    /\ faults = 0
    /\ passRuns = 0
    /\ hist = InitHist
    /\ reconciliationInterval = "null"
    /\ isShuttingDown = FALSE
    /\ processState = "running"
    /\ shutdown = NoShutdown

\* the stores as a crash, a reorg or a partial batch may have left them
InitRecon ==
    /\ InitModule
    /\ reconciliationEnabled = FALSE
    /\ startup = "ok"
    /\ clientConfigOk = TRUE
    /\ chTables \in {{}, Tables}
    /\ \E m \in [Tables \X Chains -> 0..MaxBlock] :
          /\ chTables = {} => \A k \in DOMAIN m : m[k] = 0
          /\ m[<<"X", 2>>] = m[<<"Y", 2>>]
          /\ chRows = RowsUpTo(m)
    /\ pgBootstrapped \in BOOLEAN
    /\ pgWatermarks \in PartialMaps(Chains, 0..MaxBlock)
    /\ pgChainHeads \in PartialMaps(Chains, 0..(MaxBlock + 1))
    \* chain 1 takes every head; chain 2 has no head or one inside the stored range
    /\ 2 \in DOMAIN pgChainHeads => pgChainHeads[2] = MaxBlock
    /\ ~pgBootstrapped => pgWatermarks = EmptyMap /\ pgChainHeads = EmptyMap

NextRecon == PassStep

SpecRecon == InitRecon /\ [][NextRecon]_vars

\* the accumulator alone: the stores are empty and migrated, nothing reconciles
InitBatch ==
    /\ InitModule
    /\ reconciliationEnabled = FALSE
    /\ startup = "ok"
    /\ clientConfigOk \in BOOLEAN
    /\ chTables \in {Tables, {"Y"}}
    /\ chRows = {}
    /\ pgBootstrapped = TRUE
    /\ pgWatermarks = EmptyMap
    /\ pgChainHeads = EmptyMap

NextBatch == BatchStep({1}, {1})

SpecBatch == InitBatch /\ [][NextBatch]_vars

\* the orphan remover called on its own: deleteBlocksAfter(chainId, safeBlock)
\* up to its first await (lines 324-326); the frame of the call is a pass record
\* whose loop holds this one chain
CallDeleteBlocksAfter(p, chainId, safeBlock) ==
    /\ ~PassActive(p)
    /\ passRuns < MaxPassRuns
    /\ ~GetClientThrows
    /\ clickHouseClient' = "open"
    /\ LET args == [c \in {chainId} |-> safeBlock]
       IN  /\ SetPass(p, [IdlePass EXCEPT
                    !.pc = "deleteBlocksAfter", !.run = passRuns + 1,
                    !.pgWatermarks = args, !.chain = chainId, !.todo = {chainId},
                    !.called = {chainId}, !.rows0 = chRows,
                    !.prevOk = (pass[p].pc = "done" /\ pass[p].pgWatermarks = args),
                    !.prevDeletes = pass[p].nDeletes])
           /\ hist' = [hist EXCEPT !.passPg = Append(@, args)]
    /\ passRuns' = passRuns + 1
    /\ UNCHANGED <<storeVars, batchVars, clientConfigOk, intervalTimers, pgConnections, mergeTree, lifeVars,
                   deletesInFlight, faults>>

\* any rows in the event tables, any arguments
InitDelete ==
    /\ InitModule
    /\ reconciliationEnabled = FALSE
    /\ startup = "ok"
    /\ clientConfigOk = TRUE
    /\ chTables \in {{}, Tables}
    /\ \E m \in [Tables \X Chains -> 0..MaxBlock] :
          /\ chTables = {} => \A k \in DOMAIN m : m[k] = 0
          /\ chRows = RowsUpTo(m)
    /\ pgBootstrapped = TRUE
    /\ pgWatermarks = EmptyMap
    /\ pgChainHeads = EmptyMap

NextDelete ==
    \/ \E p \in PassIds, c \in Chains, b \in 0..MaxBlock : CallDeleteBlocksAfter(p, c, b)
    \/ \E p \in PassIds : CountOrphans(p)
    \/ \E d \in deletesInFlight : DeleteSettles(d)
    \/ \E d \in deletesInFlight : DeleteRejects(d)
    \/ \E p \in PassIds : PassComplete(p)

SpecDelete == InitDelete /\ [][NextDelete]_vars

\* ------------------------------------------------------- the indexer's side
\* every record handed to writeToClickHouse so far
AcceptedRecords ==
    {currentBatch[i] : i \in 1..Len(currentBatch)} \cup
    UNION {{flushes[k].batch[i] : i \in 1..Len(flushes[k].batch)} : k \in 1..Len(flushes)}

MaxAcceptedBlock(c) ==
    Max({0} \cup {r.block : r \in {x \in AcceptedRecords : x.chain = c}})

\* Envio's PostgreSQL transaction of the running batch commits: the watermark of
\* chain c moves up to the last block handed to the effect
PgCommit(c) ==
    /\ pgBootstrapped
    /\ MaxAcceptedBlock(c) > (IF c \in DOMAIN pgWatermarks THEN pgWatermarks[c] ELSE 0)
    /\ pgWatermarks' = [x \in DOMAIN pgWatermarks \cup {c} |->
                           IF x = c THEN MaxAcceptedBlock(c) ELSE pgWatermarks[x]]
    /\ UNCHANGED <<chTables, chRows, pgBootstrapped, pgChainHeads, clientConfigOk, intervalTimers, pgConnections, mergeTree, lifeVars,
                   clickHouseClient, batchVars, passVars, faults, hist>>

\* the module is loaded in a running indexer: ingestion, the indexer's commits
\* and reconciliation passes interleave freely
Init ==
    /\ InitModule
    /\ reconciliationEnabled = FALSE
    /\ startup = "ok"
    /\ clientConfigOk = TRUE
    /\ chTables = Tables
    /\ chRows \in {{}, {[table |-> "Y", chain |-> 1, block |-> MaxBlock]}}
    /\ pgBootstrapped = TRUE
    /\ pgWatermarks \in [{1} -> 0..1]
    /\ pgChainHeads \in [{1} -> {MaxBlock, MaxBlock + 1}]

Next ==
    \/ \E t \in Tables, b \in Blocks :
          hist.accepts < MaxIngest /\ b >= MaxAcceptedBlock(1) /\ Accept(t, 1, b)
    \/ \E i \in insertsInFlight : InsertSettles(i)
    \/ \E i \in insertsInFlight : InsertRejects(i)
    \/ PgCommit(1)
    \/ PassStep

Spec == Init /\ [][Next]_vars

\* ------------------------------------------- scheduler and shutdown coordinator
Alive == processState = "running"

TimersAfterStartUnguarded(timer, n) == n + 1

\* startPeriodicReconciliation: if (reconciliationInterval) return; otherwise
\* reconciliationInterval = setInterval(...) (lines 461-477)
TimersAfterStart(timer, n) == IF timer = "set" THEN n ELSE n + 1

\* stopPeriodicReconciliation: clearInterval only when the handle is set
\* (lines 484-488)
TimersAfterStop(timer, n) == IF timer = "set" THEN n - 1 ELSE n

TimerAfterStartupAlways(enabled, timer) == "set"

\* if (CLICKHOUSE_RECONCILIATION_ENABLED) startPeriodicReconciliation(...)
\* (lines 519-523, 461-477)
TimerAfterStartup(enabled, timer) == IF enabled THEN "set" ELSE timer

\* the auto-initialize IIFE after `await initializeClickHouse()` (lines 517-528)
StartupSettles ==
    /\ Alive
    /\ startup = "running"
    /\ pass["p1"].pc \in {"done", "failed"}
    /\ IF pass["p1"].pc = "done"
       THEN LET timer == TimerAfterStartup(reconciliationEnabled, reconciliationInterval)
            IN  /\ startup' = "ok"
                /\ reconciliationInterval' = timer
                /\ intervalTimers' =
                      IF reconciliationEnabled
                      THEN TimersAfterStart(reconciliationInterval, intervalTimers)
                      ELSE intervalTimers
                /\ hist' = [hist EXCEPT !.timerStarts =
                               IF timer # reconciliationInterval THEN @ + 1 ELSE @]
                /\ UNCHANGED processState
       ELSE /\ startup' = "failed"
            /\ processState' = "exit1"
            /\ UNCHANGED <<reconciliationInterval, intervalTimers, hist>>
    /\ pass' = [pass EXCEPT !["p1"] = IdlePass]
    /\ UNCHANGED <<storeVars, batchVars, clientConfigOk, pgConnections, mergeTree, clickHouseClient,
                   deletesInFlight, passRuns, faults, reconciliationEnabled,
                   isShuttingDown, shutdown>>

FreeFrame == IF pass["p1"].pc = "idle" THEN "p1" ELSE "p2"

TickFiresAlways(timer) == TRUE

\* the callback runs every CLICKHOUSE_RECONCILIATION_INTERVAL_MS once
\* setInterval has been called, whatever the previous callback is doing
TickFires(timer) == timer = "set"

\* the setInterval callback fires and calls initializeClickHouse (lines 470-472)
Tick(p) ==
    /\ Alive
    /\ TickFires(reconciliationInterval)
    /\ passRuns <= MaxTicks
    /\ pass[p].pc = "idle"
    /\ p = FreeFrame
    /\ pass' = [pass EXCEPT ![p] = [IdlePass EXCEPT !.pc = "getPgWatermarks",
                                                    !.run = passRuns + 1]]
    /\ passRuns' = passRuns + 1
    /\ hist' = [hist EXCEPT !.passPg = Append(@, EmptyMap),
                            !.tickAfterFailure = @ \/ hist.periodicFailed > 0]
    /\ pgConnections' = PgOpened(pgConnections)
    /\ UNCHANGED <<storeVars, batchVars, clientConfigOk, intervalTimers, mergeTree, clickHouseClient,
                   deletesInFlight, faults, lifeVars>>

AfterPeriodicPassCrashes(passPc, state) == IF passPc = "failed" THEN "exit1" ELSE state

\* try { await initializeClickHouse() } catch { console.error } (lines 471-476)
AfterPeriodicPass(passPc, state) == state

\* the setInterval callback after its await
PeriodicSettles(p) ==
    /\ Alive
    /\ pass[p].run > 1
    /\ pass[p].pc \in {"done", "failed"}
    /\ processState' = AfterPeriodicPass(pass[p].pc, processState)
    /\ hist' = [hist EXCEPT !.periodicFailed =
                   IF pass[p].pc = "failed" THEN @ + 1 ELSE @]
    /\ pass' = [pass EXCEPT ![p] = IdlePass]
    /\ UNCHANGED <<storeVars, batchVars, clientConfigOk, intervalTimers, pgConnections, mergeTree, clickHouseClient,
                   deletesInFlight, passRuns, faults, reconciliationEnabled,
                   reconciliationInterval, isShuttingDown, startup, shutdown>>

SignalIgnoredNever(flag) == FALSE

\* if (isShuttingDown) return (lines 534, 542)
SignalIgnored(flag) == flag

\* if (clickHouseClient) { await clickHouseClient.close() ... } (lines 503-505),
\* else shutdownClickHouse returns and the handler calls process.exit(0)
CloseOrExit(client) == IF client = "open" THEN "closing" ELSE "exited"

CloseEvents(client) == IF client = "open" THEN <<"closeCalled">> ELSE <<"exit0">>

ExitIf(pc, state) == IF pc = "exited" THEN "exit0" ELSE state

ShutdownAfterFlushUncaught(outcome, client) ==
    IF outcome = "rejected" THEN "exited" ELSE CloseOrExit(client)

\* try { await flushBatch() } catch { console.error }: both outcomes go on to
\* the close step (lines 496-503)
ShutdownAfterFlush(outcome, client) == CloseOrExit(client)

\* a SIGINT / SIGTERM handler, with shutdownClickHouse up to its first await
\* (lines 533-547, 491-505)
Signal(sig) ==
    /\ Alive
    /\ hist.signals < MaxSignals
    /\ LET h0 == [hist EXCEPT !.signals = @ + 1]
           h1 == [h0 EXCEPT !.shutdownCalls = @ + 1, !.events = @ \o <<"stopTimer">>]
       IN  IF SignalIgnored(isShuttingDown)
           THEN /\ hist' = h0
                /\ UNCHANGED <<batchVars, clickHouseClient, lifeVars, intervalTimers>>
           ELSE /\ isShuttingDown' = TRUE
                /\ reconciliationInterval' = "null"
                /\ intervalTimers' = TimersAfterStop(reconciliationInterval, intervalTimers)
                /\ IF batchEventCount > 0
                   THEN IF GetClientThrows
                        THEN LET pc == ShutdownAfterFlush("rejected", clickHouseClient)
                             IN  /\ FlushBegin("shutdown", 0, currentBatch,
                                        [h1 EXCEPT !.events = @ \o
                                            <<"flushCalled", "flushSettled">> \o
                                            CloseEvents(clickHouseClient)])
                                 /\ shutdown' = [pc |-> pc, flush |-> 0, signal |-> sig]
                                 /\ processState' = ExitIf(pc, processState)
                        ELSE /\ FlushBegin("shutdown", 0, currentBatch,
                                    [h1 EXCEPT !.events = @ \o <<"flushCalled">>])
                             /\ shutdown' = [pc |-> "flushing", flush |-> Len(flushes) + 1,
                                             signal |-> sig]
                             /\ UNCHANGED processState
                   ELSE LET pc == CloseOrExit(clickHouseClient)
                        IN  /\ hist' = [h1 EXCEPT !.events = @ \o
                                            CloseEvents(clickHouseClient)]
                            /\ shutdown' = [pc |-> pc, flush |-> 0, signal |-> sig]
                            /\ processState' = ExitIf(pc, processState)
                            /\ UNCHANGED <<batchVars, clickHouseClient>>
                /\ UNCHANGED <<reconciliationEnabled, startup>>
    /\ UNCHANGED <<storeVars, clientConfigOk, pgConnections, mergeTree, passVars, faults>>

\* shutdownClickHouse after `await flushBatch()` has settled (lines 497-505)
ShutdownFlushSettled ==
    /\ Alive
    /\ shutdown.pc = "flushing"
    /\ flushes[shutdown.flush].outcome # "pending"
    /\ LET pc == ShutdownAfterFlush(flushes[shutdown.flush].outcome, clickHouseClient)
       IN  /\ shutdown' = [shutdown EXCEPT !.pc = pc]
           /\ processState' = ExitIf(pc, processState)
           /\ hist' = [hist EXCEPT !.events = @ \o <<"flushSettled">> \o
                           (IF pc = "closing" THEN <<"closeCalled">> ELSE <<"exit0">>)]
    /\ UNCHANGED <<storeVars, batchVars, clientConfigOk, intervalTimers, pgConnections, mergeTree, clickHouseClient, passVars,
                   faults, reconciliationEnabled, reconciliationInterval,
                   isShuttingDown, startup>>

\* `await clickHouseClient.close()` settles; shutdownClickHouse returns and the
\* handler calls process.exit(0) (lines 505-511, 538, 546)
CloseSettles(ok) ==
    /\ Alive
    /\ shutdown.pc = "closing"
    /\ ok \/ CanFail
    /\ faults' = IF ok THEN faults ELSE faults + 1
    /\ clickHouseClient' = IF ok THEN "null" ELSE clickHouseClient
    /\ shutdown' = [shutdown EXCEPT !.pc = "exited"]
    /\ processState' = "exit0"
    /\ hist' = [hist EXCEPT !.events = @ \o <<"closeSettled", "exit0">>]
    /\ UNCHANGED <<storeVars, batchVars, clientConfigOk, intervalTimers, pgConnections, mergeTree, passVars,
                   reconciliationEnabled, reconciliationInterval,
                   isShuttingDown, startup>>

\* the module has just been loaded: the IIFE has called initializeClickHouse,
\* which awaits getPgWatermarks (lines 515-517, 391-395)
InitSched ==
    /\ mergeTree = NoRows
    /\ intervalTimers = 0
    /\ pgConnections = PgOpened(0)
    /\ clientConfigOk \in BOOLEAN
    /\ reconciliationEnabled \in BOOLEAN
    /\ chTables = Tables
    /\ chRows = {[table |-> "X", chain |-> 1, block |-> MaxBlock]}
    /\ pgBootstrapped = TRUE
    /\ pgWatermarks = [c \in {1} |-> 1]
    /\ pgChainHeads = [c \in {1} |-> MaxBlock + 1]
    /\ clickHouseClient = "null"
    /\ currentBatch = <<>>
    /\ batchEventCount = 0
    /\ flushes = <<>>
    /\ insertsInFlight = {}
    /\ pass = [p \in LifePassIds |->
                  IF p = "p1" THEN [IdlePass EXCEPT !.pc = "getPgWatermarks", !.run = 1]
                  ELSE IdlePass]
    /\ deletesInFlight = {}
    /\ faults = 0
    /\ passRuns = 1
    /\ hist = [InitHist EXCEPT !.passPg = <<EmptyMap>>]
    /\ reconciliationInterval = "null"
    /\ isShuttingDown = FALSE
    /\ processState = "running"
    /\ startup = "running"
    /\ shutdown = NoShutdown

\* startup, the timer and the indexer's calls of the effect
NextSched ==
    \/ Alive /\ hist.accepts < MaxEarlyAccepts /\ Accept("X", 1, 1)
    \/ \E i \in insertsInFlight : Alive /\ InsertSettles(i)
    \/ \E i \in insertsInFlight : Alive /\ InsertRejects(i)
    \/ \E p \in LifePassIds : Alive /\ ReadPgWatermarks(p)
    \/ \E p \in LifePassIds : Alive /\ ReadPgChainHeads(p)
    \/ \E p \in LifePassIds : Alive /\ ReadClickHouseMaxBlocks(p)
    \/ \E p \in LifePassIds : Alive /\ PassThrows(p)
    \/ \E p \in LifePassIds : Alive /\ ReconcileChain(p)
    \/ \E p \in LifePassIds : Alive /\ CountOrphans(p)
    \/ \E d \in deletesInFlight : Alive /\ DeleteSettles(d)
    \/ \E d \in deletesInFlight : Alive /\ DeleteRejects(d)
    \/ \E p \in LifePassIds : Alive /\ PassComplete(p)
    \/ StartupSettles
    \/ \E p \in LifePassIds : Tick(p)
    \/ \E p \in LifePassIds : PeriodicSettles(p)

SpecSched == InitSched /\ [][NextSched]_vars

\* the module from its load to its exit: the startup pass runs while the indexer
\* calls the effect and signals arrive
InitShutdown == InitSched

NextShutdown ==
    \/ \E t \in Tables : Alive /\ hist.accepts < MaxIngest /\ Accept(t, 1, 1)
    \/ \E i \in insertsInFlight : Alive /\ InsertSettles(i)
    \/ \E i \in insertsInFlight : Alive /\ InsertRejects(i)
    \/ \E p \in LifePassIds : Alive /\ ReadPgWatermarks(p)
    \/ \E p \in LifePassIds : Alive /\ ReadPgChainHeads(p)
    \/ \E p \in LifePassIds : Alive /\ ReadClickHouseMaxBlocks(p)
    \/ \E p \in LifePassIds : Alive /\ PassThrows(p)
    \/ \E p \in LifePassIds : Alive /\ ReconcileChain(p)
    \/ \E p \in LifePassIds : Alive /\ CountOrphans(p)
    \/ \E d \in deletesInFlight : Alive /\ DeleteSettles(d)
    \/ \E d \in deletesInFlight : Alive /\ DeleteRejects(d)
    \/ \E p \in LifePassIds : Alive /\ PassComplete(p)
    \/ StartupSettles
    \/ \E sig \in Signals : Signal(sig)
    \/ ShutdownFlushSettled
    \/ \E ok \in BOOLEAN : CloseSettles(ok)

SpecShutdown == InitShutdown /\ [][NextShutdown]_vars

\* ================================================================== claims
RowsOfChain(rows, c) == {r \in rows : r.chain = c}

\* C1: when a reconciliation pass has completed without error and nothing was
\* ingested meanwhile, every chain known to the process store has no row above
\* its process-store watermark, unless the pass classified the chain
\* OrphanWithinReorgWindow.
C1_WatermarkReconciled ==
    \A p \in PassIds :
        pass[p].pc = "done" =>
            \A c \in DOMAIN pass[p].pgWatermarks :
                pass[p].decision[c] # "OrphanWithinReorgWindow" =>
                    \A r \in RowsOfChain(chRows, c) : r.block <= pgWatermarks[c]

C1_Witness ==
    \E p \in PassIds :
        /\ pass[p].pc = "done"
        /\ pass[p].nDeletes > 1
        /\ \E c \in DOMAIN pass[p].decision :
              /\ pass[p].decision[c] = "OrphanConfirmed"
              /\ \E r \in RowsOfChain(pass[p].rows0, c) : r.block > pgWatermarks[c]
              /\ \A r \in RowsOfChain(chRows, c) : r.block <= pgWatermarks[c]
        /\ \E c \in DOMAIN pass[p].decision :
              /\ pass[p].decision[c] = "OrphanWithinReorgWindow"
              /\ \E r \in RowsOfChain(chRows, c) : r.block > pgWatermarks[c]

C4_NoActionWhenNotAhead ==
    \A p \in PassIds : \A c \in DOMAIN pass[p].decision :
        LET pgBlock == pass[p].pgWatermarks[c]
            chBlock == IF c \in DOMAIN pass[p].chMaxBlocks
                       THEN pass[p].chMaxBlocks[c] ELSE 0
        IN  /\ (chBlock = pgBlock) => pass[p].decision[c] = "InSync"
            /\ (chBlock < pgBlock) => pass[p].decision[c] = "BehindWillReprocess"
            /\ (chBlock <= pgBlock) =>
                  /\ c \notin pass[p].called
                  /\ ~\E d \in deletesInFlight :
                        d.pass = p /\ d.run = pass[p].run /\ d.chainId = c
                  /\ RowsOfChain(chRows, c) = RowsOfChain(pass[p].rows0, c)
                  /\ pgWatermarks[c] = pgBlock

C4_Witness ==
    \E p \in PassIds :
        /\ pass[p].pc = "done"
        /\ \E c \in DOMAIN pass[p].decision :
              pass[p].decision[c] = "InSync" /\ RowsOfChain(chRows, c) # {}
        /\ \E c \in DOMAIN pass[p].decision :
              pass[p].decision[c] = "BehindWillReprocess"

\* C5: a pass that starts right after a pass that completed without error, with
\* nothing ingested and the process store unchanged in between, issues no DELETE.
C5_SecondPassDeletesNothing ==
    \A p \in PassIds : pass[p].prevOk => pass[p].nDeletes = 0 /\ pass[p].called = {}

C5_Witness ==
    \E p \in PassIds :
        /\ pass[p].prevOk
        /\ pass[p].pc = "done"
        /\ \E c \in DOMAIN pass[p].decision :
              /\ pass[p].decision[c] \in {"InSync", "BehindWillReprocess"}
              /\ \E r \in [table : Tables, chain : {c}, block : Blocks] :
                    r \notin chRows /\ r.block > pgWatermarks[c]
        /\ \E c \in DOMAIN pass[p].decision :
              pass[p].decision[c] = "OrphanWithinReorgWindow"

\* ------------------------------------------------------- accumulator claims
AcceptedIds == 1..hist.accepts

\* positions (flush, index) at which record `id` sits in a swapped batch
FlushedAt(id) ==
    {q \in (1..Len(flushes)) \X AcceptedIds :
        q[2] <= Len(flushes[q[1]].batch) /\ flushes[q[1]].batch[q[2]].id = id}

PendingAt(id) == {i \in 1..Len(currentBatch) : currentBatch[i].id = id}

\* C7: every accepted record sits in exactly one generation (the current
\* buffers or the batch of exactly one flush) and is passed to client.insert at
\* most once; a flush's batch holds only records accepted before its swap, and
\* the current buffers only records accepted after every swap so far.
C7_ExactlyOneGeneration ==
    /\ \A id \in AcceptedIds :
          /\ Cardinality(PendingAt(id)) + Cardinality(FlushedAt(id)) = 1
          /\ Cardinality({i \in 1..Len(hist.handed) : hist.handed[i] = id})
                = Cardinality(FlushedAt(id))
    /\ \A k \in 1..Len(flushes) :
          /\ \A id \in Ids(flushes[k].batch) : id <= flushes[k].at
          /\ \A id \in Ids(currentBatch) : id > flushes[k].at

C7_Witness ==
    /\ Len(flushes) = 2
    /\ \A k \in 1..2 :
          /\ flushes[k].outcome = "pending"
          /\ \E i \in insertsInFlight : i.flush = k
    /\ currentBatch # <<>>
    /\ \E id \in Ids(currentBatch) : id > flushes[2].at

\* C8: with threshold T, no flush requested from outside and a usable client,
\* after N accepts there were N div T automatic flushes, the k-th swapped
\* exactly the records (k-1)T+1 .. kT at the kT-th accept, and N mod T records
\* are pending.
C8_AutoFlushAtThreshold ==
    (clientConfigOk /\ hist.flushCalls = 0) =>
        /\ batchEventCount = hist.accepts % ENVIO_MAX_BATCH_SIZE
        /\ Len(currentBatch) = hist.accepts % ENVIO_MAX_BATCH_SIZE
        /\ Len(flushes) = hist.accepts \div ENVIO_MAX_BATCH_SIZE
        /\ \A k \in 1..Len(flushes) :
              /\ flushes[k].caller = "accept"
              /\ flushes[k].acceptId = k * ENVIO_MAX_BATCH_SIZE
              /\ Ids(flushes[k].batch) =
                    ((k - 1) * ENVIO_MAX_BATCH_SIZE + 1)..(k * ENVIO_MAX_BATCH_SIZE)

C8_Witness ==
    /\ clientConfigOk /\ hist.flushCalls = 0
    /\ hist.accepts = ENVIO_MAX_BATCH_SIZE + 1
    /\ Len(flushes) = 1
    /\ Cardinality({flushes[1].batch[i].table : i \in 1..Len(flushes[1].batch)}) = 2
    /\ batchEventCount = 1

FlushFailedFor(id) ==
    \/ id \in hist.clientThrew
    \/ \E k \in 1..Len(flushes) :
          flushes[k].acceptId = id /\ flushes[k].outcome = "rejected"

\* C9 as stated: no writeToClickHouse call ever rejects.
C9_AcceptNeverRaises == hist.raised = {}

\* C9 amended: a writeToClickHouse call rejects exactly when the flushBatch call
\* it made on reaching the threshold failed; a call that makes no flushBatch call
\* returns true at once, and a call whose flush resolved returns true.
C9_AcceptRaisesIffItsFlushFails ==
    \A id \in AcceptedIds :
        /\ (id \in hist.raised) <=> FlushFailedFor(id)
        /\ (id \in hist.returned) => ~FlushFailedFor(id)
        /\ (\A k \in 1..Len(flushes) : flushes[k].acceptId # id) =>
              (id \in hist.returned \/ id \in hist.clientThrew)
        /\ \A k \in 1..Len(flushes) :
              (flushes[k].acceptId = id /\ flushes[k].outcome = "resolved")
                  => id \in hist.returned

C9_Witness ==
    /\ \E k \in 1..Len(flushes) :
          /\ flushes[k].outcome = "rejected"
          /\ flushes[k].acceptId \in hist.raised
          /\ Ids(flushes[k].batch) \cap hist.insertedOk # {}
    /\ \E k \in 1..Len(flushes) :
          flushes[k].outcome = "resolved" /\ flushes[k].acceptId \in hist.returned

\* C10: an insert that rejects makes its flushBatch call reject (towards the
\* awaiting writeToClickHouse call when that is the caller), and every accepted
\* record is pending, or was inserted successfully, or belongs to a flush that
\* rejected, or to an unsettled flush with its insert still in flight.
C10_NoSilentDrop ==
    /\ \A k \in 1..Len(flushes) :
          /\ flushes[k].failed # "" => flushes[k].outcome = "rejected"
          /\ (flushes[k].outcome = "rejected" /\ flushes[k].caller = "accept")
                => flushes[k].acceptId \in hist.raised
    /\ \A id \in AcceptedIds :
          \/ id \in Ids(currentBatch)
          \/ id \in hist.insertedOk
          \/ \E k \in 1..Len(flushes) :
                /\ id \in Ids(flushes[k].batch)
                /\ \/ flushes[k].outcome = "rejected"
                   \/ /\ flushes[k].outcome = "pending"
                      /\ \E i \in insertsInFlight :
                            i.flush = k /\ id \in Ids(Bucket(flushes[k].batch, i.table))

C10_Witness ==
    /\ insertsInFlight = {}
    /\ currentBatch # <<>>
    /\ \E k \in 1..Len(flushes) :
          /\ flushes[k].outcome = "rejected"
          /\ flushes[k].caller = "explicit"
    /\ \E k \in 1..Len(flushes) :
          /\ flushes[k].outcome = "rejected"
          /\ flushes[k].caller = "accept"
          /\ Ids(flushes[k].batch) \cap hist.insertedOk # {}
          /\ Ids(flushes[k].batch) \ hist.insertedOk # {}

InsertOf(k, t) == [flush |-> k, table |-> t]

\* C11: a flush makes one client.insert call per non-empty table bucket of the
\* swapped batch and none for a table without records; when an insert rejects
\* the flush rejects; the rows of an insert that succeeded are in the analytics
\* store whatever became of the flush (nothing is rolled back).
C11_PartialBatchStays ==
    \A k \in 1..Len(flushes) :
        /\ \A t \in Tables :
              LET b == Bucket(flushes[k].batch, t)
                  inFlight == InsertOf(k, t) \in insertsInFlight
                  rejected == InsertOf(k, t) \in hist.rejected
                  inserted == b # <<>> /\ Ids(b) \subseteq hist.insertedOk
              IN  /\ b = <<>> => ~inFlight /\ ~rejected
                  /\ b # <<>> =>
                        /\ inFlight \/ rejected \/ inserted
                        /\ ~(inFlight /\ rejected)
                        /\ ~(inFlight /\ inserted)
                        /\ ~(rejected /\ inserted)
                  /\ inserted => RowsOf(b) \subseteq chRows
        /\ (\E t \in Tables : InsertOf(k, t) \in hist.rejected)
              => flushes[k].outcome = "rejected"

C11_Witness ==
    /\ insertsInFlight = {}
    /\ \E k \in 1..Len(flushes) :
          /\ flushes[k].outcome = "rejected"
          /\ InsertOf(k, "X") \in hist.rejected
          /\ Bucket(flushes[k].batch, "Y") # <<>>
          /\ RowsOf(Bucket(flushes[k].batch, "Y")) \subseteq chRows
          /\ RowsOf(Bucket(flushes[k].batch, "X")) \cap chRows = {}

\* C12 as stated: a flush that has resolved or rejected has no insert in flight.
C12_SettlesAfterEveryInsert ==
    \A k \in 1..Len(flushes) :
        flushes[k].outcome # "pending" => ~\E i \in insertsInFlight : i.flush = k

\* C12 amended: a flush resolves only when every insert it made has resolved;
\* it rejects with the first insert that rejects, whatever inserts it still has
\* in flight; while it is pending none of its inserts has rejected and at least
\* one is in flight.
C12_ResolvesAfterEveryInsert ==
    \A k \in 1..Len(flushes) :
        LET mine == {i \in insertsInFlight : i.flush = k}
            bad == {i \in hist.rejected : i.flush = k}
        IN  /\ flushes[k].outcome = "resolved" =>
                  mine = {} /\ bad = {} /\ Ids(flushes[k].batch) \subseteq hist.insertedOk
            /\ flushes[k].outcome = "rejected" => bad # {}
            /\ flushes[k].outcome = "pending" => mine # {} /\ bad = {}

C12_Witness ==
    \E k \in 1..Len(flushes) :
        /\ flushes[k].outcome = "rejected"
        /\ \E i \in insertsInFlight : i.flush = k
        /\ Ids(flushes[k].batch) \cap hist.insertedOk = {}

\* --------------------------------------------- reconciliation against ingestion
RowOf(r) == [table |-> r.table, chain |-> r.chain, block |-> r.block]

\* C2: a row removed from the analytics store is removed by a DELETE command of
\* a pass and lies above the process-store watermark which that pass read for
\* the row's chain; rows at or below it stay, also those of a partial batch.
C2_NeverDeletesAtOrBelowWatermark ==
    [][\A r \in chRows \ chRows' :
          \E d \in deletesInFlight \ deletesInFlight' :
              /\ d.table = r.table /\ d.chainId = r.chain
              /\ r.chain \in DOMAIN hist.passPg[d.run]
              /\ r.block > hist.passPg[d.run][r.chain]]_vars

\* a flush rejected for table X while its insert into Y succeeded; a later
\* pass deleted orphans and Y's row at or below the watermark is still there
C2_Witness ==
    \E k \in 1..Len(flushes) :
        /\ flushes[k].outcome = "rejected" /\ flushes[k].failed = "X"
        /\ \E r \in RowsOf(Bucket(flushes[k].batch, "Y")) :
              /\ r \in chRows
              /\ r.block <= pgWatermarks[r.chain]
              /\ Ids(Bucket(flushes[k].batch, "Y")) \subseteq hist.insertedOk
        /\ \E p \in PassIds :
              /\ pass[p].pc = "done" /\ pass[p].nDeletes > 0
              /\ GetClickHouseMaxBlocks(pass[p].rows0, Tables)[1] > pass[p].pgWatermarks[1]
              /\ \E r \in RowsOf(Bucket(flushes[k].batch, "Y")) : r \in pass[p].rows0

\* C6 as stated: whatever the interleaving, a row whose insert succeeded and
\* whose block the process store has committed (block <= pgBlock) is still in
\* the analytics store.
C6_CommittedRowsSurvive ==
    \A r \in AcceptedRecords :
        (/\ r.id \in hist.insertedOk
         /\ r.chain \in DOMAIN pgWatermarks
         /\ r.block <= pgWatermarks[r.chain]) => RowOf(r) \in chRows
\* ------------------------------------------------------------ scheduler claims
\* C13 as stated: a record is accepted, or a row of it written, only when the
\* startup reconciliation pass has completed successfully.
C13_NoIngestionBeforeStartup ==
    (hist.accepts > 0 \/ hist.insertedOk # {}) => startup = "ok"

\* C14: when the startup pass has failed the process has exited with status 1
\* and setInterval was never called; the timer is set, and periodic passes run,
\* only after the startup pass succeeded and only when periodic reconciliation
\* is enabled; no other path exits with status 1.
C14_StartupFailureIsFatal ==
    /\ startup = "failed" =>
          /\ processState = "exit1"
          /\ reconciliationInterval = "null"
          /\ hist.timerStarts = 0
          /\ passRuns = 1
    /\ processState = "exit1" => startup = "failed"
    /\ (reconciliationInterval = "set" \/ hist.timerStarts > 0 \/ passRuns > 1) =>
          startup = "ok" /\ reconciliationEnabled
    /\ (startup = "ok" /\ reconciliationEnabled) =>
          reconciliationInterval = "set" /\ hist.timerStarts = 1

C14_Witness ==
    /\ startup = "failed"
    /\ processState = "exit1"
    /\ reconciliationEnabled
    /\ clientConfigOk
    /\ faults > 0

\* C15: after a periodic pass has failed the process is still running and the
\* timer is still set, so the callback fires again at the next interval.
C15_PeriodicFailureSwallowed ==
    hist.periodicFailed > 0 =>
        /\ processState = "running"
        /\ reconciliationInterval = "set"
        /\ startup = "ok"

C15_Witness ==
    /\ hist.periodicFailed > 0
    /\ hist.tickAfterFailure
    /\ \E p \in LifePassIds : pass[p].run > 2 /\ pass[p].pc = "done"

\* ------------------------------------------------------------- shutdown claims
Pos(e) ==
    IF \E i \in 1..Len(hist.events) : hist.events[i] = e
    THEN CHOOSE i \in 1..Len(hist.events) : hist.events[i] = e
    ELSE 0

Before(a, b) == (Pos(a) > 0 /\ Pos(b) > 0) => Pos(a) < Pos(b)

C17_NoInsertInFlightAtClose ==
    shutdown.pc \in {"closing", "exited"} => insertsInFlight = {}

\* C18: however many SIGINT and SIGTERM signals are delivered,
\* shutdownClickHouse is called at most once: by the first signal; a signal
\* delivered while shutdown is in progress changes nothing.
C18_ShutdownAtMostOnce ==
    /\ hist.shutdownCalls <= 1
    /\ hist.signals > 0 => hist.shutdownCalls = 1 /\ isShuttingDown
    /\ hist.signals = 0 => hist.shutdownCalls = 0 /\ shutdown = NoShutdown

C18_Witness ==
    /\ hist.signals = 2
    /\ hist.shutdownCalls = 1
    /\ processState = "running"
    /\ shutdown.pc = "flushing"
    /\ flushes[shutdown.flush].outcome = "pending"
Matches(d) ==
    {r \in chRows : r.table = d.table /\ r.chain = d.chainId /\ r.block > d.safeBlock}

LogicalEvents == [chainId : {1, 11}, blockNumber : {1, 11}, logIndex : {1}]

DigitChar == <<"0", "1", "2", "3", "4", "5", "6", "7", "8", "9">>

\* a number in a template literal: its decimal digits
Dec(n) ==
    IF n < 10 THEN <<DigitChar[n + 1]>>
    ELSE <<DigitChar[(n \div 10) + 1], DigitChar[(n % 10) + 1]>>

\* id: `${event.chainId}_${event.block.number}_${event.logIndex}`
SurrogateId(e) ==
    Dec(e.chainId) \o <<"_">> \o Dec(e.blockNumber) \o <<"_">> \o Dec(e.logIndex)

\* the table name is fixed per registered handler
TableOf(e) == "X"

\* the handler's row for event e reaches the table: _inserted_at DEFAULT now()
HandlerWrites(e) ==
    /\ mergeTree.seq < MaxInserts
    /\ mergeTree' = [mergeTree EXCEPT
          !.rows = @ \cup {[table |-> TableOf(e), id |-> SurrogateId(e),
                            version |-> mergeTree.now, seq |-> mergeTree.seq + 1]},
          !.seq = @ + 1,
          !.written = @ \cup {[event |-> e, version |-> mergeTree.now]}]
    /\ UNCHANGED <<storeVars, batchVars, passVars, lifeVars, clientConfigOk, intervalTimers, pgConnections,
                   clickHouseClient, faults, hist>>

\* now() moves on by a second
ClockAdvances ==
    /\ mergeTree.now < MaxClock
    /\ mergeTree' = [mergeTree EXCEPT !.now = @ + 1]
    /\ UNCHANGED <<storeVars, batchVars, passVars, lifeVars, clientConfigOk, intervalTimers, pgConnections,
                   clickHouseClient, faults, hist>>

\* ReplacingMergeTree(_inserted_at) ORDER BY (id): of two rows of a table with
\* the same id the one with the higher version wins, the later insert on a tie
Replaces(a, b) ==
    /\ a.table = b.table /\ a.id = b.id
    /\ a.version > b.version \/ (a.version = b.version /\ a.seq > b.seq)

\* a background merge drops a replaced row
BackgroundMerge(r) ==
    /\ r \in mergeTree.rows
    /\ \E a \in mergeTree.rows : Replaces(a, r)
    /\ mergeTree' = [mergeTree EXCEPT !.rows = @ \ {r}]
    /\ UNCHANGED <<storeVars, batchVars, passVars, lifeVars, clientConfigOk, intervalTimers, pgConnections,
                   clickHouseClient, faults, hist>>

ReadPlain(rows, t) == {r \in rows : r.table = t}

\* SELECT ... FROM t FINAL
ReadFinal(rows, t) ==
    {r \in rows : r.table = t /\ ~\E a \in rows : Replaces(a, r)}

InitDedup ==
    /\ InitModule
    /\ reconciliationEnabled = FALSE
    /\ startup = "ok"
    /\ clientConfigOk = TRUE
    /\ chTables = Tables
    /\ chRows = {}
    /\ pgBootstrapped = TRUE
    /\ pgWatermarks = EmptyMap
    /\ pgChainHeads = EmptyMap

NextDedup ==
    \/ \E e \in LogicalEvents : HandlerWrites(e)
    \/ ClockAdvances
    \/ \E r \in mergeTree.rows : BackgroundMerge(r)

SpecDedup == InitDedup /\ [][NextDedup]_vars

HasRead(p) == pass[p].pc \in {"loop", "deleteBlocksAfter", "deleting", "done"}

\* C21: when the progress table does not exist the pass works on an empty
\* process-store mapping, and when no event table exists on an empty
\* analytics-store mapping; in both cases it calls no deletion and fails only
\* if a store operation failed; a failing store operation fails the pass.
C21_FirstRunIsNotAnError ==
    \A p \in PassIds :
        /\ (HasRead(p) /\ ~pgBootstrapped) =>
              pass[p].pgWatermarks = EmptyMap /\ pass[p].pgChainHeads = EmptyMap
        /\ (HasRead(p) /\ chTables = {}) => pass[p].chMaxBlocks = EmptyMap
        /\ (~pgBootstrapped \/ chTables = {}) =>
              /\ pass[p].called = {} /\ pass[p].nDeletes = 0
              /\ deletesInFlight = {}
              /\ pass[p].pc = "failed" => faults > 0
        /\ (pass[p].run = 1 /\ faults > 0) => pass[p].pc = "failed"

C21_Witness ==
    \E p \in PassIds :
        /\ pass[p].pc = "done"
        /\ chTables = {}
        /\ pgBootstrapped
        /\ \E c \in DOMAIN pass[p].pgWatermarks : pass[p].pgWatermarks[c] > 0
        /\ faults = 0

\* C22: the analytics-store watermark a pass reads for a chain is the highest
\* block of that chain's rows over all event tables together, and a chain with
\* no row in any table has no entry.
C22_MaxAcrossAllTables ==
    \A p \in PassIds :
        HasRead(p) =>
            /\ DOMAIN pass[p].chMaxBlocks = {r.chain : r \in pass[p].rows0}
            /\ \A c \in DOMAIN pass[p].chMaxBlocks :
                  /\ \E r \in pass[p].rows0 :
                        r.chain = c /\ r.block = pass[p].chMaxBlocks[c]
                  /\ \A r \in pass[p].rows0 :
                        r.chain = c => r.block <= pass[p].chMaxBlocks[c]

\* a partial batch: table Y holds chain 1 up to MaxBlock, table X less
C22_Witness ==
    \E p \in PassIds :
        /\ HasRead(p)
        /\ 1 \in DOMAIN pass[p].chMaxBlocks /\ pass[p].chMaxBlocks[1] = MaxBlock
        /\ ~\E r \in pass[p].rows0 : r.table = "X" /\ r.chain = 1 /\ r.block = MaxBlock
        /\ \E r \in pass[p].rows0 : r.table = "X" /\ r.chain = 1
        /\ 2 \notin DOMAIN pass[p].chMaxBlocks
        /\ 2 \in DOMAIN pass[p].pgWatermarks
\* C28: a chain whose head the pass could not read is judged against its
\* process-store watermark: it is never OrphanWithinReorgWindow or
\* OrphanConfirmed, and when the analytics store is ahead of the watermark it is
\* OrphanBeyondHead, deleteBlocksAfter is called for it in that pass, and a
\* completed pass leaves no row of the chain above the watermark.
C28_NoHeadMeansBeyondHead ==
    \A p \in PassIds : \A c \in DOMAIN pass[p].decision :
        c \notin DOMAIN pass[p].pgChainHeads =>
            /\ pass[p].decision[c] \in {"BehindWillReprocess", "InSync", "OrphanBeyondHead"}
            /\ OrElse(pass[p].chMaxBlocks, c, 0) > pass[p].pgWatermarks[c] =>
                  /\ pass[p].decision[c] = "OrphanBeyondHead"
                  /\ c \in pass[p].called
                  /\ pass[p].pc = "done" =>
                        ~\E r \in chRows :
                            r.chain = c /\ r.block > pass[p].pgWatermarks[c]

C28_Witness ==
    \E p \in PassIds : \E c \in DOMAIN pass[p].decision :
        /\ c \notin DOMAIN pass[p].pgChainHeads
        /\ pass[p].pc = "done"
        /\ pass[p].run = 1
        /\ pass[p].decision[c] = "OrphanBeyondHead"
        /\ pass[p].chMaxBlocks[c] = pass[p].pgWatermarks[c] + 1
        /\ \E r \in pass[p].rows0 : r.chain = c /\ r \notin chRows

\* C29: a pass reconciles only chains that have a watermark in the process
\* store: it calls deleteBlocksAfter for no other chain, no DELETE in flight
\* names another chain, and every row of another chain that a pass saw is
\* still stored.
C29_UnknownChainsUntouched ==
    LET known == IF pgBootstrapped THEN DOMAIN pgWatermarks ELSE {}
    IN  /\ \A d \in deletesInFlight : d.chainId \in known
        /\ \A p \in PassIds :
              /\ pass[p].called \subseteq known
              /\ DOMAIN pass[p].decision \subseteq known
              /\ \A r \in pass[p].rows0 : r.chain \notin known => r \in chRows

C29_Witness ==
    \E p \in PassIds :
        /\ pass[p].pc = "done"
        /\ pass[p].nDeletes > 0
        /\ pgBootstrapped
        /\ 2 \notin DOMAIN pgWatermarks
        /\ 1 \in pass[p].called
        /\ \E r \in chRows : r.chain = 2 /\ r.block = MaxBlock
\* ---------------------------------------------------------- accumulator size
\* C26: the pending count never exceeds the configured threshold.
C26_PendingBoundedByThreshold == batchEventCount <= ENVIO_MAX_BATCH_SIZE

\* C27: the pending count is the number of records held in the per-table
\* buckets together, so it is 0 exactly when every bucket is empty, and a flush
\* that swaps the buckets away resets the count in the same step.
C27_CountMatchesBuckets ==
    /\ batchEventCount = Len(currentBatch)
    /\ \A t \in Tables : Len(Bucket(currentBatch, t)) <= batchEventCount
    /\ batchEventCount = 0 <=> \A t \in Tables : Bucket(currentBatch, t) = <<>>
    /\ \A k \in 1..Len(flushes) :
          (flushes[k].at = hist.accepts /\ flushes[k].caller = "accept") =>
              batchEventCount = 0 /\ currentBatch = <<>>

\* a flush has swapped a batch away and a later record is pending
C27_Witness ==
    /\ Len(flushes) > 0
    /\ batchEventCount = 1
    /\ Len(Bucket(currentBatch, "Y")) = 1
    /\ hist.accepts = ENVIO_MAX_BATCH_SIZE + 1
\* ------------------------------------------------------------ overlapping passes
\* C30 as stated: at most one reconciliation pass is in progress at any time.
C30_AtMostOnePass == Cardinality({p \in LifePassIds : PassActive(p)}) <= 1

\* C30: while the startup pass is running no timer is set and no other pass is
\* in progress; periodic passes are started by every tick, whether or not an
\* earlier periodic pass is still running.
C30_OnlyStartupPassRunsAlone ==
    startup = "running" =>
        /\ reconciliationInterval = "null"
        /\ passRuns = 1
        /\ ~PassActive("p2")
        /\ pass["p1"].run = 1

\* a tick started a pass while the pass of the previous tick is at its reads
C30_Witness ==
    /\ startup = "ok"
    /\ PassActive("p1") /\ PassActive("p2")
    /\ pass["p1"].run = 2 /\ pass["p2"].run = 3
    /\ pass["p1"].pc = "getPgWatermarks"
\* ------------------------------------------------- periodic reconciliation
\* the timer keeps firing for as long as the process runs; the passes of these
\* ticks are not counted, they all carry the run number of the last counted pass.
\* Here a pass has settled before the next tick (the interval defaults to 60 s).
TickRecurring(p) ==
    /\ Alive
    /\ TickFires(reconciliationInterval)
    /\ pass[p].pc = "idle"
    /\ p = FreeFrame
    /\ ~\E d \in deletesInFlight : d.pass = p
    /\ pass' = [pass EXCEPT ![p] = [IdlePass EXCEPT !.pc = "getPgWatermarks",
                                                    !.run = passRuns]]
    /\ hist' = [hist EXCEPT !.passPg[passRuns] = EmptyMap]
    /\ pgConnections' = PgOpened(pgConnections)
    /\ UNCHANGED <<storeVars, batchVars, clientConfigOk, intervalTimers, mergeTree, clickHouseClient,
                   deletesInFlight, passRuns, faults, lifeVars>>

MaxHead == MaxBlock + CONFIRMED_BLOCK_THRESHOLD

\* Envio records a higher source_block for a chain (envio_chains)
HeadAdvances(c) ==
    /\ c \in DOMAIN pgChainHeads
    /\ pgChainHeads[c] < MaxHead
    /\ pgChainHeads' = [pgChainHeads EXCEPT ![c] = @ + 1]
    /\ UNCHANGED <<chTables, chRows, pgBootstrapped, pgWatermarks, batchVars,
                   clientConfigOk, intervalTimers, pgConnections, mergeTree, clickHouseClient, passVars, faults,
                   hist, lifeVars>>

\* the indexer is quiescent and its watermarks stable; the startup pass is over
\* and the timer is set
InitConverge ==
    /\ mergeTree = NoRows
    /\ intervalTimers = 1
    /\ pgConnections = 0
    /\ clientConfigOk = TRUE
    /\ reconciliationEnabled = TRUE
    /\ chTables = Tables
    /\ \E m \in [Tables \X Chains -> 0..MaxBlock] :
          /\ m[<<"X", 2>>] = m[<<"Y", 2>>]
          /\ m[<<"X", 2>>] \in {0, MaxBlock}
          /\ chRows = RowsUpTo(m)
    /\ pgBootstrapped = TRUE
    /\ pgWatermarks \in PartialMaps(Chains, 0..1)
    /\ 1 \in DOMAIN pgWatermarks
    /\ 2 \in DOMAIN pgWatermarks => pgWatermarks[2] = 1
    /\ pgChainHeads \in PartialMaps({1}, 1..MaxBlock)
    /\ clickHouseClient = "open"
    /\ currentBatch = <<>>
    /\ batchEventCount = 0
    /\ flushes = <<>>
    /\ insertsInFlight = {}
    /\ pass = [p \in LifePassIds |-> IdlePass]
    /\ deletesInFlight = {}
    /\ faults = 0
    /\ passRuns = 2
    /\ hist = [InitHist EXCEPT !.passPg = <<EmptyMap, EmptyMap>>, !.timerStarts = 1]
    /\ reconciliationInterval = "set"
    /\ isShuttingDown = FALSE
    /\ processState = "running"
    /\ startup = "ok"
    /\ shutdown = NoShutdown

\* the steps of a pass that the event loop runs when its awaited query resolves
PassProgress(p) ==
    \/ ReadPgWatermarks(p)
    \/ ReadPgChainHeads(p)
    \/ ReadClickHouseMaxBlocks(p)
    \/ ReconcileChain(p)
    \/ CountOrphans(p)
    \/ PassComplete(p)
    \/ PeriodicSettles(p)

NextConverge ==
    \/ \E p \in PassIds : TickRecurring(p)
    \/ \E p \in PassIds : PassProgress(p)
    \/ \E p \in PassIds : PassThrows(p)
    \/ \E d \in deletesInFlight : DeleteSettles(d)
    \/ \E d \in deletesInFlight : DeleteRejects(d)
    \/ \E c \in Chains : HeadAdvances(c)

DeleteCommands ==
    [pass : PassIds, run : {2}, table : Tables, chainId : Chains, safeBlock : 0..1]

\* setInterval fires again and again, an awaited query that does not fail
\* resolves, and a DELETE that does not fail completes; failures are finite
SpecConverge ==
    /\ InitConverge
    /\ [][NextConverge]_vars
    /\ \A p \in PassIds : WF_vars(TickRecurring(p)) /\ WF_vars(PassProgress(p))
    /\ \A d \in DeleteCommands : WF_vars(DeleteSettles(d))

ChBlock(c) == OrElse(GetClickHouseMaxBlocks(chRows, GetAllEventTables), c, 0)

IsOrphan(c) == c \in DOMAIN GetPgWatermarks /\ ChBlock(c) > GetPgWatermarks[c]

ClassNow(c) ==
    Classify(ChBlock(c), GetPgWatermarks[c],
             ChainHeadOf(GetPgChainHeads, c, GetPgWatermarks[c]),
             CONFIRMED_BLOCK_THRESHOLD)

SpecBatchFair ==
    /\ InitBatch
    /\ [][NextBatch]_vars
    /\ WF_vars(\E i \in insertsInFlight : InsertSettles(i) \/ InsertRejects(i))

HandedToInsert(id) == \E k \in 1..Len(hist.handed) : hist.handed[k] = id

\* C24 as stated: every accepted record is eventually handed to a bulk insert
\* while the process keeps running with a usable client.
C24_EveryRecordEventuallyHanded ==
    \A id \in 1..MaxAccepts :
        (clientConfigOk /\ hist.accepts >= id) ~> HandedToInsert(id)
\* ------------------------------------------------ the exported timer functions
\* startPeriodicReconciliation() called from outside the module (lines 460-478)
CallStartPeriodicReconciliation ==
    /\ Alive
    /\ reconciliationInterval = "set" \/ hist.timerStarts < MaxTimerStarts
    /\ reconciliationInterval' = "set"
    /\ intervalTimers' = TimersAfterStart(reconciliationInterval, intervalTimers)
    /\ hist' = [hist EXCEPT
          !.startWhileActive = @ \/ reconciliationInterval = "set",
          !.timerStarts = IF reconciliationInterval = "set" THEN @ ELSE @ + 1]
    /\ UNCHANGED <<storeVars, batchVars, clientConfigOk, pgConnections, mergeTree,
                   clickHouseClient, passVars, faults, reconciliationEnabled,
                   isShuttingDown, processState, startup, shutdown>>

\* stopPeriodicReconciliation() called from outside the module (lines 483-489)
CallStopPeriodicReconciliation ==
    /\ Alive
    /\ reconciliationInterval' = "null"
    /\ intervalTimers' = TimersAfterStop(reconciliationInterval, intervalTimers)
    /\ hist' = [hist EXCEPT !.stopWhileIdle = @ \/ reconciliationInterval = "null"]
    /\ UNCHANGED <<storeVars, batchVars, clientConfigOk, pgConnections, mergeTree,
                   clickHouseClient, passVars, faults, reconciliationEnabled,
                   isShuttingDown, processState, startup, shutdown>>

\* the startup pass is over, reconciliation is disabled in the environment and
\* the host program drives the timer through the exported functions
InitTimer ==
    /\ mergeTree = NoRows
    /\ intervalTimers = 0
    /\ pgConnections = 0
    /\ clientConfigOk = TRUE
    /\ reconciliationEnabled = FALSE
    /\ chTables = Tables
    /\ chRows = {[table |-> "X", chain |-> 1, block |-> MaxBlock]}
    /\ pgBootstrapped = TRUE
    /\ pgWatermarks = [c \in {1} |-> 1]
    /\ pgChainHeads = [c \in {1} |-> MaxBlock + 1]
    /\ clickHouseClient = "open"
    /\ currentBatch = <<>>
    /\ batchEventCount = 0
    /\ flushes = <<>>
    /\ insertsInFlight = {}
    /\ pass = [p \in LifePassIds |-> IdlePass]
    /\ deletesInFlight = {}
    /\ faults = 0
    /\ passRuns = 2
    /\ hist = [InitHist EXCEPT !.passPg = <<EmptyMap, EmptyMap>>]
    /\ reconciliationInterval = "null"
    /\ isShuttingDown = FALSE
    /\ processState = "running"
    /\ startup = "ok"
    /\ shutdown = NoShutdown

NextTimer ==
    \/ CallStartPeriodicReconciliation
    \/ CallStopPeriodicReconciliation
    \/ \E p \in LifePassIds : TickRecurring(p)
    \/ \E p \in LifePassIds : PassProgress(p)
    \/ \E p \in LifePassIds : PassThrows(p)
    \/ \E d \in deletesInFlight : DeleteSettles(d)
    \/ \E d \in deletesInFlight : DeleteRejects(d)

SpecTimer == InitTimer /\ [][NextTimer]_vars

\* C31: the runtime holds at most one interval timer of the module, and it
\* holds one exactly when reconciliationInterval is set: a start with a timer
\* set adds none, a stop leaves none, and a stop without a timer changes nothing.
C31_AtMostOneTimer ==
    /\ intervalTimers \in {0, 1}
    /\ intervalTimers = 1 <=> reconciliationInterval = "set"

\* both no-op calls have happened, a timer is set and one of its ticks runs a pass
C31_Witness ==
    /\ hist.startWhileActive
    /\ hist.stopWhileIdle
    /\ intervalTimers = 1
    /\ hist.timerStarts = MaxTimerStarts
    /\ \E p \in LifePassIds : PassActive(p)
\* ------------------------------------------------------ shutdown and startup
\* C32 as stated: once shutdown has stopped the periodic timer, no timer is set
\* for the rest of the process's life.
C32_NoTimerAfterShutdownStoppedIt ==
    isShuttingDown => reconciliationInterval = "null" /\ intervalTimers = 0
\* C33 as stated: when the process has exited through the signal handler, no
\* accepted record is left in the accumulator.
C33_AccumulatorEmptyAtExit ==
    processState = "exit0" => batchEventCount = 0 /\ currentBatch = <<>>
\* --------------------------------------------------------------- flush frame
\* C34: a flush called with no pending record issues no insert, creates no
\* client, starts no flush generation and leaves the buffers, the pending count
\* and the stored rows as they are.
C34_EmptyFlushIsNoOp ==
    [][(hist.flushCalls' = hist.flushCalls + 1 /\ batchEventCount = 0) =>
          /\ UNCHANGED <<clickHouseClient, currentBatch, batchEventCount,
                         flushes, insertsInFlight, chRows>>
          /\ hist'.handed = hist.handed]_vars

\* flush was called before any record was accepted: no client, no flush record
C34_Witness ==
    /\ hist.flushCalls = 1
    /\ hist.accepts = 0
    /\ clickHouseClient = "null"
    /\ flushes = <<>>
    /\ batchEventCount = 0
\* C35 as stated: the table named in the failure log of a rejected flush is the
\* table whose insert rejected.
C35_LogNamesFailedTable ==
    \A k \in 1..Len(flushes) :
        flushes[k].outcome = "rejected" => flushes[k].logged = flushes[k].failed
\* --------------------------------------------------------- reader connections
AtPgRead(p) == pass[p].pc \in {"getPgWatermarks", "getPgChainHeads"}

\* C36 as stated: when no pass is in progress, no connection opened by a
\* watermark reader is open, in the process store or in the analytics store.
C36_NoReaderConnectionLeftOpen ==
    (\A p \in PassIds : ~PassActive(p)) =>
        pgConnections = 0 /\ clickHouseClient = "null"

\* C36: the process-store readers hold one connection for the time of their
\* call and have ended it when the call returns, whether it returned rows,
\* found no table or threw; the analytics-store reader works on the module's
\* shared client, which stays open after the reader has returned.
C36_PgReadersReleaseSharedClientStays ==
    /\ pgConnections = Cardinality({p \in PassIds : AtPgRead(p)})
    /\ (\A p \in PassIds : ~PassActive(p)) => pgConnections = 0
    /\ \A p \in PassIds :
          pass[p].pc \in {"getClickHouseMaxBlocks", "loop", "deleteBlocksAfter",
                          "deleting", "done"} => clickHouseClient = "open"

\* a second pass failed inside getPgWatermarks after a first pass completed
C36_Witness ==
    \E p \in PassIds :
        /\ pass[p].pc = "failed"
        /\ pass[p].run = 2
        /\ pass[p].prevOk
        /\ pgBootstrapped /\ pgWatermarks # EmptyMap
        /\ pass[p].pgWatermarks = EmptyMap
        /\ pgConnections = 0
        /\ clickHouseClient = "open"
====
